---- MODULE Spec2Model ----
(***************************************************************************)
(* State-machine model of the views of the WhatsApp sender application    *)
(* (src/messaging/views.py): the inbound webhook, the chat views, the      *)
(* manual reply, the bulk upload, the job status page and the report       *)
(* downloads.                                                              *)
(***************************************************************************)
EXTENDS Integers, Sequences, FiniteSets, TLC

VARIABLES
    settings,   \* django.conf.settings: the WhatsApp credentials and the verify token
    log,        \* table SmsWhatsAppLog: sequence of rows, row i has primary key i
    clock,      \* last wall-clock reading used for a row's sent_at
    req,        \* per worker: the whatsapp_webhook POST request being handled
    reply,      \* the response of the last view that runs in one step
    netio,      \* provider HTTP calls made by the last step
    stdout,     \* what the last step printed
    jobs,       \* table BulkJob: job_id -> row
    tasks,      \* broker queue of process_bulk_whatsapp.delay(...) submissions
    files,      \* working directory: report file name -> content
    up,         \* the upload_and_send request being handled
    run         \* the background task being executed

webVars == <<log, clock, req>>
jobVars == <<jobs, tasks, files, up, run>>
vars == <<settings, log, clock, req, reply, netio, stdout, jobs, tasks, files, up, run>>

(***************************************************************************)
(* Bounds                                                                  *)
(***************************************************************************)
MaxLog == 2        \* rows the message log may hold
MaxMsgs == 2       \* messages of one webhook payload
MaxClock == 1      \* distinct wall-clock readings
MaxRows == 2       \* rows of an uploaded sheet
MaxJobs == 2       \* jobs created

\* Python's None
None == "<None>"

Workers == {1, 2}

(***************************************************************************)
(* Generic helpers                                                         *)
(***************************************************************************)
Range(s) == {s[i] : i \in 1..Len(s)}

SeqsUpTo(S, n) == UNION {[1..k -> S] : k \in 0..n}

\* all orderings of the finite set S
Perms(S) == {p \in [1..Cardinality(S) -> S] : \A i, j \in 1..Cardinality(S) : p[i] = p[j] => i = j}

(***************************************************************************)
(* settings.py                                                             *)
(***************************************************************************)
SettingsChoices ==
    { [WHATSAPP_ACCESS_TOKEN |-> "EAAG-token", WHATSAPP_PHONE_NUMBER_ID |-> "1055",
       WHATSAPP_VERIFY_TOKEN |-> "s3cret"],
      [WHATSAPP_ACCESS_TOKEN |-> "", WHATSAPP_PHONE_NUMBER_ID |-> "",
       WHATSAPP_VERIFY_TOKEN |-> "s3cret"] }

(***************************************************************************)
(* utils.format_mobile: digits only, one country-code convention           *)
(***************************************************************************)
RawNumbers == {"+91 98765-43210", "919876543210", "9123456789"}

format_mobile(raw) ==
    CASE raw = "+91 98765-43210" -> "919876543210"
      [] raw = "9876543210"      -> "919876543210"
      [] raw = "919876543210"    -> "919876543210"
      [] raw = "9123456789"      -> "919123456789"
      [] raw = "919123456789"    -> "919123456789"
      [] OTHER                   -> raw

(***************************************************************************)
(* Inbound payloads                                                        *)
(*   {entry:[{changes:[{value:{messages:[...], contacts:[...]}}]}]}        *)
(* A message is a record of the keys the handler reads; None = key absent. *)
(*   text      msg["text"]["body"]                                         *)
(*   itype     msg["interactive"]["type"]                                  *)
(*   ireply    msg["interactive"][itype]["text" | "title"]                 *)
(*   media_id  msg[type]["id"]                                             *)
(*   filename  msg["document"]["filename"]                                 *)
(***************************************************************************)
Msg(from, id, type, text, itype, ireply, media_id, filename) ==
    [from |-> from, id |-> id, type |-> type, text |-> text, itype |-> itype,
     ireply |-> ireply, media_id |-> media_id, filename |-> filename]

TextOk      == Msg("+91 98765-43210", "wamid.1", "text", "hi", None, None, None, None)
TextOk2     == Msg("919876543210", "wamid.2", "text", "hello", None, None, None, None)
TextOther   == Msg("9123456789", "wamid.3", "text", "hi", None, None, None, None)
TextNoField == Msg("+91 98765-43210", "wamid.4", "text", None, None, None, None, None)
NoTypeText  == Msg("919876543210", "wamid.5", None, "hi", None, None, None, None)
Sticker     == Msg("919876543210", "wamid.6", "sticker", None, None, None, "m1", None)
Location    == Msg("9123456789", "wamid.7", "location", None, None, None, None, None)
Image       == Msg("+91 98765-43210", "wamid.8", "image", None, None, None, "m1", None)
ImageNoId   == Msg("919876543210", "wamid.9", "image", None, None, None, None, None)
DocNamed    == Msg("919876543210", "wamid.10", "document", None, None, None, "m2", "a.pdf")
DocUnnamed  == Msg("9123456789", "wamid.11", "document", None, None, None, "m2", None)
Video       == Msg("919876543210", "wamid.12", "video", None, None, None, "m1", None)
Audio       == Msg("9123456789", "wamid.13", "audio", None, None, None, "m2", None)
Button      == Msg("919876543210", "wamid.14", "interactive", None, "button", "Yes", None, None)
ListReply   == Msg("919876543210", "wamid.15", "interactive", None, "list_reply", "Plan A", None, None)
ButtonNoKey == Msg("919876543210", "wamid.16", "interactive", None, "button", None, None, None)
Flow        == Msg("919876543210", "wamid.17", "interactive", None, "nfm_reply", None, None, None)

\* the messages the specifications draw their payloads from
BasicPool == {TextOk, TextNoField, NoTypeText, Sticker, Location, Image}
MediaPool == {TextOk, Image, ImageNoId, DocNamed, DocUnnamed, Video, Audio}
ReplyPool == {TextOk, Button, ListReply, ButtonNoKey, Flow}
ChatPool == {TextOk, TextOther, Image}
BatchPool == {TextOk, TextOk2, TextNoField}

MediaTypes == {"image", "document", "video", "audio"}
KnownTypes == {"text", "interactive"} \cup MediaTypes

\* the iteration order of the three nested loops of whatsapp_webhook
RECURSIVE FlattenMsgs(_, _)
FlattenMsgs(messages, contacts) ==
    IF messages = <<>> THEN <<>>
    ELSE <<[msg |-> Head(messages), contacts |-> contacts]>>
         \o FlattenMsgs(Tail(messages), contacts)

RECURSIVE FlattenChanges(_)
FlattenChanges(changes) ==
    IF changes = <<>> THEN <<>>
    ELSE FlattenMsgs(Head(changes).messages, Head(changes).contacts)
         \o FlattenChanges(Tail(changes))

RECURSIVE Flatten(_)
Flatten(entries) ==
    IF entries = <<>> THEN <<>>
    ELSE FlattenChanges(Head(entries)) \o Flatten(Tail(entries))

\* the value of a change; contacts holds the profile name of each contact (every
\* contact of the payloads drawn here carries one)
Change(messages, contacts) == [messages |-> messages, contacts |-> contacts]

\* payloads of one entry with one change, whose contacts array names the sender
OneChange(P, n) ==
    {<< <<Change(ms, <<"Asha">>)>> >> : ms \in SeqsUpTo(P, n)}

\* payloads whose messages are spread over two changes or two entries
Spread(P, n) ==
    UNION {{ << <<Change(SubSeq(ms, 1, k), <<"Asha">>), Change(SubSeq(ms, k + 1, Len(ms)), <<"Asha">>)>> >>,
             << <<Change(SubSeq(ms, 1, k), <<"Asha">>)>>, <<Change(SubSeq(ms, k + 1, Len(ms)), <<"Asha">>)>> >> }
           : k \in 1..(n - 1), ms \in [1..n -> P]}

\* payloads that lack parts: no entry, an entry without changes, a message that
\* comes without a contacts array
Partial == { <<>>, << <<>> >>, << <<Change(<<TextOk>>, <<>>)>> >> }

Payloads(P, n) == Partial \cup OneChange(P, n) \cup Spread(P, n)

\* the payloads of PS by the number of messages the handler will meet
ByLength(PS, n) == [k \in 0..n |-> {p \in PS : Len(Flatten(p)) = k}]

(***************************************************************************)
(* download_whatsapp_media                                                 *)
(***************************************************************************)
\* what the provider does with the two requests of one download
FetchOutcomes ==
    { [meta_ok |-> FALSE, bytes_ok |-> FALSE],
      [meta_ok |-> TRUE, bytes_ok |-> FALSE],
      [meta_ok |-> TRUE, bytes_ok |-> TRUE] }

NoFetch == [meta_ok |-> FALSE, bytes_ok |-> FALSE]

\* meta_data.get("mime_type", ""): what the provider's metadata says of a media id
MimeType(media_id) ==
    CASE media_id = "m1" -> "image/jpeg"
      [] media_id = "m2" -> "application/pdf"
      [] OTHER -> ""

\* mime_type.split("/")[-1] if "/" in mime_type else "bin"
Extension(mime) ==
    CASE mime = "image/jpeg" -> "jpeg"
      [] mime = "application/pdf" -> "pdf"
      [] OTHER -> "bin"

\* f"whatsapp_{media_id}.{extension}"
MediaFilename(media_id, extension) ==
    CASE media_id = "m1" /\ extension = "jpeg" -> "whatsapp_m1.jpeg"
      [] media_id = "m2" /\ extension = "pdf"  -> "whatsapp_m2.pdf"
      [] media_id = "m1" /\ extension = "bin"  -> "whatsapp_m1.bin"
      [] media_id = "m2" /\ extension = "bin"  -> "whatsapp_m2.bin"
      [] OTHER -> "whatsapp_None.bin"

\* mutant: the status of the byte download is not checked
download_whatsapp_media_unchecked(media_id, net) ==
    IF net.meta_ok
    THEN <<MediaFilename(media_id, Extension(MimeType(media_id))), "bytes">>
    ELSE <<>>

\* the result: <<>> for None, <<filename, content>> otherwise
download_whatsapp_media(media_id, net) ==
    IF net.meta_ok /\ net.bytes_ok
    THEN <<MediaFilename(media_id, Extension(MimeType(media_id))), "bytes">>
    ELSE <<>>

\* the requests of one download, in order
download_calls(net) ==
    IF net.meta_ok THEN <<"GET media meta", "GET media bytes">> ELSE <<"GET media meta">>

\* what download_whatsapp_media prints
download_prints(net) ==
    IF net.meta_ok /\ net.bytes_ok THEN <<>> ELSE <<"Failed to download media:">>

(***************************************************************************)
(* whatsapp_webhook: the mapping of one message (lines 270-321)            *)
(***************************************************************************)
\* f"[Image received: {media_id}]"
ImageText(media_id) ==
    CASE media_id = "m1" -> "[Image received: m1]"
      [] media_id = "m2" -> "[Image received: m2]"
      [] OTHER -> "[Image received: None]"

Mapped(text_body, content_type, media_file, calls, prints) ==
    [raised |-> FALSE, detail |-> "", text_body |-> text_body, content_type |-> content_type,
     media_file |-> media_file, calls |-> calls, prints |-> prints]

Raised(detail) ==
    [raised |-> TRUE, detail |-> detail, text_body |-> "", content_type |-> "unknown",
     media_file |-> <<>>, calls |-> <<>>, prints |-> <<>>]

\* lines 278-280
MapText(msg) ==
    IF msg.text = None THEN Raised("'text'")
    ELSE Mapped(msg.text, "text", <<>>, <<>>, <<>>)

\* lines 283-289
MapInteractive(msg) ==
    IF msg.itype = "button"
    THEN IF msg.ireply = None THEN Raised("'button'")
         ELSE Mapped(msg.ireply, "interactive", <<>>, <<>>, <<>>)
    ELSE IF msg.itype = "list_reply"
    THEN IF msg.ireply = None THEN Raised("'list_reply'")
         ELSE Mapped(msg.ireply, "interactive", <<>>, <<>>, <<>>)
    ELSE Mapped("", "interactive", <<>>, <<>>, <<>>)

\* lines 292-321: the placeholder, then the download
MapMedia(msg, net) ==
    Mapped(CASE msg.type = "image" -> ImageText(msg.media_id)
             [] msg.type = "document" ->
                   IF msg.filename = None THEN "[Document]" ELSE msg.filename
             [] msg.type = "video" -> "[Video]"
             [] OTHER -> "[Audio]",
           msg.type, download_whatsapp_media(msg.media_id, net),
           download_calls(net), download_prints(net))

\* mutant: a dispatch that rejects the types it does not know
MapUnknown_strict(msg) == Raised("unsupported message type")

\* no branch matches: the initial values of lines 273-275 are kept
MapUnknown(msg) == Mapped("", "unknown", <<>>, <<>>, <<>>)

MapMessage(msg, net) ==
    LET msg_type == IF msg.type = None THEN "text" ELSE msg.type
    IN  CASE msg_type = "text" -> MapText(msg)
          [] msg_type = "interactive" -> MapInteractive(msg)
          [] msg_type \in {"image", "document", "video", "audio"} -> MapMedia(msg, net)
          [] OTHER -> MapUnknown(msg)

\* the provider is asked only by the branches that call download_whatsapp_media
FetchChoices(msg) ==
    IF msg.type \in MediaTypes THEN FetchOutcomes ELSE {NoFetch}

(***************************************************************************)
(* Rows and responses                                                      *)
(***************************************************************************)
\* SmsWhatsAppLog.objects.create(...): the fields the views pass; sent_at is
\* stamped by the model at creation, media_file starts empty
Row(customer_name, mobile, template_name, text, status, message_type, message_id, content_type, sent_at) ==
    [customer_name |-> customer_name, mobile |-> mobile, template_name |-> template_name,
     sent_text_message |-> text, status |-> status, message_type |-> message_type,
     message_id |-> message_id, content_type |-> content_type, media_file |-> "",
     sent_at |-> sent_at]

\* sent_at of a new row: the wall clock, which may not have advanced since the
\* previous row was stamped
auto_now_add(c) == {c} \cup {t \in {c + 1} : t <= MaxClock}

Response(status, key, value) == [status |-> status, body |-> <<key, value>>]

NoResponse == [status |-> 0, body |-> <<>>]

IdleReq ==
    [pc |-> "idle", parsed |-> FALSE, payload |-> <<>>, i |-> 0, net |-> NoFetch,
     pk |-> 0, media_file |-> <<>>, made |-> <<>>, resp |-> NoResponse]

\* messages of the request of worker w that its loop has not reached yet
Pending(w) ==
    CASE req[w].pc = "loop"   -> Len(Flatten(req[w].payload)) - req[w].i + 1
      [] req[w].pc = "attach" -> Len(Flatten(req[w].payload)) - req[w].i
      [] OTHER -> 0

RECURSIVE SumPending(_)
SumPending(W) ==
    IF W = {} THEN 0
    ELSE LET w == CHOOSE x \in W : TRUE IN Pending(w) + SumPending(W \ {w})

\* room left in the log, counting the rows the running requests may still add
Room == MaxLog - Len(log) - SumPending(Workers)

(***************************************************************************)
(* whatsapp_webhook, POST (lines 259-345)                                  *)
(***************************************************************************)
\* mutant: the except clause stands inside the innermost loop, which goes on
WebhookError_inLoop(r, detail) ==
    IF r.i < Len(Flatten(r.payload))
    THEN [r EXCEPT !.pc = "loop", !.i = r.i + 1, !.media_file = <<>>]
    ELSE [r EXCEPT !.pc = "done", !.media_file = <<>>,
                   !.resp = [status |-> 200, body |-> <<"status", "received">>]]

\* mutant: a row is created only if no row carries its provider message id
objects_create_unique(row) ==
    IF \E pk \in 1..Len(log) : log[pk].message_id = row.message_id
    THEN log
    ELSE Append(log, row)

\* SmsWhatsAppLog.objects.create(...): an INSERT, whatever the table holds
objects_create(row) == Append(log, row)

\* the except clause: print and answer 400 with str(e)
WebhookError(r, detail) ==
    [r EXCEPT !.pc = "done", !.media_file = <<>>,
              !.resp = Response(400, "error", detail)]

\* the loops move on to the next message, or end with {"status": "received"}
WebhookAdvance(r) ==
    IF r.i < Len(Flatten(r.payload))
    THEN [r EXCEPT !.pc = "loop", !.i = r.i + 1, !.media_file = <<>>]
    ELSE [r EXCEPT !.pc = "done", !.media_file = <<>>,
                   !.resp = Response(200, "status", "received")]

\* json.loads fails: lines 261, 343-345
WebhookPostBadJson(w) ==
    /\ req[w].pc \in {"idle", "done"}
    /\ req' = [req EXCEPT ![w] = WebhookError(IdleReq, "Expecting property name")]
    /\ stdout' = <<"Webhook error:", "Expecting property name">>
    /\ netio' = <<>>
    /\ UNCHANGED <<settings, log, clock, reply, jobVars>>

\* the body parses: lines 261-262, and the loops reach the first message
WebhookPost(w, PS, cap) ==
    /\ req[w].pc \in {"idle", "done"}
    /\ \E k \in DOMAIN PS :
         /\ k <= cap - Len(log) - SumPending(Workers \ {w})
         /\ \E payload \in PS[k] :
              LET r == [IdleReq EXCEPT !.parsed = TRUE, !.payload = payload]
              IN  req' = [req EXCEPT ![w] = WebhookAdvance(r)]
    /\ stdout' = <<>>
    /\ netio' = <<>>
    /\ UNCHANGED <<settings, log, clock, reply, jobVars>>

\* one pass of the innermost loop up to the create: lines 270-333
WebhookMessage(w) ==
    /\ req[w].pc = "loop"
    /\ LET r    == req[w]
           item == Flatten(r.payload)[r.i]
           msg  == item.msg
       IN \E net \in FetchChoices(msg), now \in auto_now_add(clock) :
            LET m == MapMessage(msg, net)
                row == Row(IF item.contacts # <<>> THEN item.contacts[1] ELSE "",
                           format_mobile(msg.from), "incoming", m.text_body,
                           "Received", "Received", msg.id, m.content_type, now)
            IN  /\ netio' = m.calls
                /\ IF m.raised
                   THEN /\ req' = [req EXCEPT ![w] = WebhookError([r EXCEPT !.net = net], m.detail)]
                        /\ stdout' = <<"Webhook error:", m.detail>>
                        /\ UNCHANGED <<log, clock>>
                   ELSE /\ log' = objects_create(row)
                        /\ clock' = now
                        /\ stdout' = m.prints
                        /\ LET r2 == [r EXCEPT !.made = Append(r.made, Len(log) + 1),
                                               !.pk = Len(log) + 1, !.net = net]
                           IN  req' = [req EXCEPT ![w] =
                                  IF m.media_file # <<>>
                                  THEN [r2 EXCEPT !.pc = "attach", !.media_file = m.media_file]
                                  ELSE WebhookAdvance(r2)]
    /\ UNCHANGED <<settings, reply, jobVars>>

\* mutant: the file is attached to the newest row of the table
AttachedLog_latest(pk, filename) == [log EXCEPT ![Len(log)].media_file = filename]

\* the row the handler holds gets the stored file's name
AttachedLog(pk, filename) == [log EXCEPT ![pk].media_file = filename]

\* log.media_file.save(filename, ContentFile(content)); log.save(): lines 336-339.
\* The storage write may fail, and the exception reaches the except clause.
WebhookAttach(w) ==
    /\ req[w].pc = "attach"
    /\ \E stored \in BOOLEAN :
         IF stored
         THEN /\ log' = AttachedLog(req[w].pk, req[w].media_file[1])
              /\ req' = [req EXCEPT ![w] = WebhookAdvance(req[w])]
              /\ stdout' = <<>>
         ELSE /\ req' = [req EXCEPT ![w] = WebhookError(req[w], "No space left on device")]
              /\ stdout' = <<"Webhook error:", "No space left on device">>
              /\ UNCHANGED log
    /\ netio' = <<>>
    /\ UNCHANGED <<settings, clock, reply, jobVars>>

(***************************************************************************)
(* Views that run in one step: their response is left in reply             *)
(***************************************************************************)
Reply(op, arg, resp) == [op |-> op, arg |-> arg, resp |-> resp]

NoReply == Reply("", <<>>, NoResponse)

\* mutant: the mode is not compared
Verified_anyMode(mode, token) ==
    token = settings.WHATSAPP_VERIFY_TOKEN

\* whatsapp_webhook, GET: the verification handshake (lines 251-257)
Verified(mode, token) ==
    mode = "subscribe" /\ token = settings.WHATSAPP_VERIFY_TOKEN

HubModes == {None, "subscribe", "unsubscribe"}
HubTokens == {None, "", "s3cret", "guess"}
HubChallenges == {None, "1158201444"}

WebhookGet ==
    /\ \E mode \in HubModes, token \in HubTokens, challenge \in HubChallenges :
         reply' = Reply("whatsapp_webhook GET", <<mode, token, challenge>>,
                        IF Verified(mode, token)
                        THEN Response(200, "hub.challenge", challenge)
                        ELSE Response(400, "text", "Invalid verification."))
    /\ netio' = <<>>
    /\ stdout' = <<>>
    /\ UNCHANGED <<settings, webVars, jobVars>>

\* whatsapp_webhook, neither GET nor POST (line 347)
WebhookOtherMethod ==
    /\ reply' = Reply("whatsapp_webhook PUT", <<>>,
                      Response(400, "text", "Unsupported method."))
    /\ netio' = <<>>
    /\ stdout' = <<>>
    /\ UNCHANGED <<settings, webVars, jobVars>>

(***************************************************************************)
(* send_whatsapp_text and send_reply_api (lines 23-46, 188-228)            *)
(***************************************************************************)
\* str.strip() on the values the requests carry
Strip(x) ==
    CASE x = " " -> ""
      [] x = "  " -> ""
      [] x = " ok " -> "ok"
      [] OTHER -> x

ReplyMobiles == {" ", "+91 98765-43210", "9123456789"}
ReplyTexts == {"  ", " ok "}

\* what the provider does with the POST of send_whatsapp_text:
\* an HTTP error status, a timeout, a 2xx answer whose body resp.json() cannot
\* parse, a JSON answer with or without a message id
SendOutcomes == {"http_error", "timeout", "not_json", "ok_id", "ok_noid"}

HasCredentials ==
    settings.WHATSAPP_ACCESS_TOKEN # "" /\ settings.WHATSAPP_PHONE_NUMBER_ID # ""

\* the outcomes send_whatsapp_text can have under the current settings
SendChoices == IF HasCredentials THEN SendOutcomes ELSE {"no_credentials"}

\* mutant: every answer of the provider is taken to carry a message id
ApiMessageId_assumed(outcome) == "wamid.out"

\* msg_id taken from api_resp["messages"][0]["id"]
ApiMessageId(outcome) == IF outcome = "ok_id" THEN "wamid.out" ELSE ""

SendReplyNotPost ==
    /\ reply' = Reply("send_reply_api", <<"GET">>, Response(400, "text", "POST required."))
    /\ netio' = <<>>
    /\ stdout' = <<>>
    /\ UNCHANGED <<settings, webVars, jobVars>>

SendReplyMissing ==
    /\ \E mobile \in ReplyMobiles, text \in ReplyTexts :
         /\ Strip(mobile) = "" \/ Strip(text) = ""
         /\ reply' = Reply("send_reply_api", <<"POST", mobile, text>>,
                           Response(400, "text", "mobile and text required."))
    /\ netio' = <<>>
    /\ stdout' = <<>>
    /\ UNCHANGED <<settings, webVars, jobVars>>

SendReplyFailed ==
    /\ \E mobile \in ReplyMobiles, text \in ReplyTexts, outcome \in SendChoices :
         /\ Strip(mobile) # "" /\ Strip(text) # ""
         /\ outcome \in {"no_credentials", "http_error", "timeout", "not_json"}
         /\ reply' = Reply("send_reply_api", <<"POST", mobile, text, outcome>>,
                           CASE outcome = "http_error" -> Response(500, "error", "HTTP error")
                             [] outcome = "timeout" -> Response(500, "error", "Read timed out.")
                             [] outcome = "not_json" -> Response(500, "error", "Expecting value")
                             [] OTHER -> Response(500, "error",
                                   "Set WHATSAPP_ACCESS_TOKEN and WHATSAPP_PHONE_NUMBER_ID in settings.py"))
         /\ netio' = IF outcome = "no_credentials" THEN <<>> ELSE <<"POST messages">>
    /\ stdout' = <<>>
    /\ UNCHANGED <<settings, webVars, jobVars>>

SendReplySent ==
    /\ Room >= 1
    /\ \E mobile \in ReplyMobiles, text \in ReplyTexts, outcome \in SendChoices,
          now \in auto_now_add(clock) :
         /\ Strip(mobile) # "" /\ Strip(text) # ""
         /\ outcome \in {"ok_id", "ok_noid"}
         /\ LET msg_id == ApiMessageId(outcome)
            IN  log' = objects_create(Row("", format_mobile(Strip(mobile)), "manual", Strip(text),
                                           IF msg_id # "" THEN "Delivered" ELSE "Sent",
                                           "Sent", msg_id, None, now))
         /\ clock' = now
         /\ reply' = Reply("send_reply_api", <<"POST", mobile, text, outcome>>,
                           Response(200, "status", "ok"))
    /\ netio' = <<"POST messages">>
    /\ stdout' = <<>>
    /\ UNCHANGED <<settings, req, jobVars>>

send_reply_api == SendReplyNotPost \/ SendReplyMissing \/ SendReplyFailed \/ SendReplySent

(***************************************************************************)
(* Queries on the message log                                              *)
(***************************************************************************)
\* QuerySet.order_by("sent_at") over the rows ids: every order the database may
\* return, rows with equal sent_at in any relative order
OrderBySentAt(ids) ==
    {p \in Perms(ids) : \A a, b \in 1..Cardinality(ids) :
                           a < b => log[p[a]].sent_at <= log[p[b]].sent_at}

\* QuerySet.order_by("-sent_at")
OrderBySentAtDesc(ids) ==
    {p \in Perms(ids) : \A a, b \in 1..Cardinality(ids) :
                           a < b => log[p[a]].sent_at >= log[p[b]].sent_at}

\* the placeholder clean-up of chat_messages_api (lines 162-170)
DisplayText(t) ==
    CASE t \in {"[Image received: m1]", "[Image received: m2]", "[Image received: None]"}
            -> "(camera) Image"
      [] t = "[Audio]" -> "(headphone) Audio"
      [] t = "[Video]" -> "(clapper) Video"
      [] t = "[Document]" -> "(page) Document"
      [] OTHER -> t

\* msg.media_file.url: MEDIA_URL and the stored name; <<>> for ""
MediaUrl(name) == IF name = "" THEN <<>> ELSE <<"/media/", name>>

ChatMessage(pk) ==
    [id |-> pk, customer_name |-> log[pk].customer_name, mobile |-> log[pk].mobile,
     sent_text_message |-> DisplayText(log[pk].sent_text_message),
     message_type |-> log[pk].message_type, sent_at |-> log[pk].sent_at,
     message_id |-> log[pk].message_id,
     content_type |-> IF log[pk].content_type = None THEN "text" ELSE log[pk].content_type,
     media_file |-> MediaUrl(log[pk].media_file)]

\* chat_messages_api (lines 148-184)
chat_messages_api ==
    /\ \E mobile \in RawNumbers :
         LET normalized == format_mobile(mobile)
             ids == {pk \in 1..Len(log) : log[pk].mobile = normalized}
         IN \E p \in OrderBySentAt(ids) :
              reply' = Reply("chat_messages_api", <<mobile>>,
                             Response(200, "messages",
                                      [k \in 1..Cardinality(ids) |-> ChatMessage(p[k])]))
    /\ netio' = <<>>
    /\ stdout' = <<>>
    /\ UNCHANGED <<settings, webVars, jobVars>>

\* the seen-set loop of chat_dashboard (lines 131-137)
RECURSIVE Dedupe(_, _)
Dedupe(ms, seen) ==
    IF ms = <<>> THEN <<>>
    ELSE LET normalized == format_mobile(Head(ms))
         IN  IF normalized \in seen THEN Dedupe(Tail(ms), seen)
             ELSE <<normalized>> \o Dedupe(Tail(ms), seen \cup {normalized})

LastSent(mobile) ==
    LET ts == {log[pk].sent_at : pk \in {k \in 1..Len(log) : log[k].mobile = mobile}}
    IN  CHOOSE t \in ts : \A u \in ts : u <= t

\* chat_dashboard (lines 120-142)
chat_dashboard ==
    /\ LET mobiles == {log[pk].mobile : pk \in 1..Len(log)}
       IN \E p \in {q \in Perms(mobiles) : \A a, b \in 1..Cardinality(mobiles) :
                                            a < b => LastSent(q[a]) >= LastSent(q[b])} :
            reply' = Reply("chat_dashboard", <<>>,
                           Response(200, "mobile_list", Dedupe(p, {})))
    /\ netio' = <<>>
    /\ stdout' = <<>>
    /\ UNCHANGED <<settings, webVars, jobVars>>

\* export_received_messages_to_excel (lines 394-434): one sheet row per
\* Received row, newest first
export_received_messages_to_excel ==
    /\ LET ids == {pk \in 1..Len(log) : log[pk].message_type = "Received"}
       IN \E p \in OrderBySentAtDesc(ids) :
            reply' = Reply("export_received_messages_to_excel", <<>>,
                           Response(200, "received_messages.xlsx",
                              [k \in 1..Cardinality(ids) |->
                                 <<log[p[k]].mobile, log[p[k]].sent_text_message,
                                   log[p[k]].media_file # "" /\ log[p[k]].content_type = "image">>]))
    /\ netio' = <<>>
    /\ stdout' = <<>>
    /\ UNCHANGED <<settings, webVars, jobVars>>

(***************************************************************************)
(* upload_and_send (lines 52-80)                                           *)
(***************************************************************************)
Templates == {"welcome", "offer"}

\* mutant: the header line is counted as a customer
JobRow_headerCounted(job_id, template_name, total_customers) ==
    [job_id |-> job_id, template_name |-> template_name,
     total_customers |-> total_customers + 1, status |-> "Pending",
     sent_count |-> 0, failed_count |-> 0]

\* BulkJob.objects.create(...): the fields the view passes; the counters start at 0
JobRow(job_id, template_name, total_customers) ==
    [job_id |-> job_id, template_name |-> template_name,
     total_customers |-> total_customers, status |-> "Pending",
     sent_count |-> 0, failed_count |-> 0]

IdleUp == [pc |-> "idle", method |-> "", valid |-> FALSE, readable |-> FALSE, rows |-> 0,
           choice |-> "", job_id |-> 0, resp |-> NoResponse]

\* str(uuid.uuid4()): an id no job has yet
NewJobId == Len(jobs) + 1

\* GET: the empty form is rendered
UploadGet ==
    /\ up.pc \in {"idle", "done"}
    /\ up' = [IdleUp EXCEPT !.pc = "done", !.method = "GET",
                            !.resp = Response(200, "render", "messaging/index.html")]
    /\ UNCHANGED <<settings, webVars, reply, netio, stdout, jobs, tasks, files, run>>

\* POST with a form that does not validate: the form is rendered again
UploadInvalid ==
    /\ up.pc \in {"idle", "done"}
    /\ up' = [IdleUp EXCEPT !.pc = "done", !.method = "POST",
                            !.resp = Response(200, "render", "messaging/index.html")]
    /\ UNCHANGED <<settings, webVars, reply, netio, stdout, jobs, tasks, files, run>>

\* POST with a valid form whose file pandas cannot read: line 63 raises
UploadUnreadable ==
    /\ up.pc \in {"idle", "done"}
    /\ up' = [IdleUp EXCEPT !.pc = "done", !.method = "POST", !.valid = TRUE,
                            !.resp = Response(500, "text", "Server Error (500)")]
    /\ UNCHANGED <<settings, webVars, reply, netio, stdout, jobs, tasks, files, run>>

\* POST with a valid form: lines 56-73, up to the creation of the job
UploadCreate ==
    /\ up.pc \in {"idle", "done"}
    /\ Len(jobs) < MaxJobs
    /\ \E choice \in Templates, total_customers \in 0..MaxRows :
         /\ jobs' = Append(jobs, JobRow(NewJobId, choice, total_customers))
         /\ up' = [IdleUp EXCEPT !.pc = "created", !.method = "POST", !.valid = TRUE,
                                 !.readable = TRUE, !.rows = total_customers, !.choice = choice,
                                 !.job_id = NewJobId]
    /\ UNCHANGED <<settings, webVars, reply, netio, stdout, tasks, files, run>>

\* process_bulk_whatsapp.delay(file_path, choice, job_id) and the redirect: lines 75-76
UploadSubmit ==
    /\ up.pc = "created"
    /\ tasks' = Append(tasks, [choice |-> up.choice, job_id |-> up.job_id])
    /\ up' = [up EXCEPT !.pc = "done", !.resp = Response(302, "job_status", up.job_id)]
    /\ UNCHANGED <<settings, webVars, reply, netio, stdout, jobs, files, run>>

upload_and_send ==
    UploadGet \/ UploadInvalid \/ UploadUnreadable \/ UploadCreate \/ UploadSubmit

(***************************************************************************)
(* tasks.process_bulk_whatsapp: the dispatch loop of one job               *)
(***************************************************************************)
IdleRun == [job_id |-> 0, k |-> 0]

\* a worker takes a submitted task from the queue
TaskStart ==
    /\ run.job_id = 0
    /\ \E n \in 1..Len(tasks) :
         /\ run' = [job_id |-> tasks[n].job_id, k |-> 0]
         /\ tasks' = [m \in 1..(Len(tasks) - 1) |-> IF m < n THEN tasks[m] ELSE tasks[m + 1]]
    /\ UNCHANGED <<settings, webVars, reply, netio, stdout, jobs, files, up>>

\* one recipient resolves, as sent or as failed
TaskRecipient ==
    /\ run.job_id # 0
    /\ run.k < jobs[run.job_id].total_customers
    /\ \E sent \in BOOLEAN :
         jobs' = [jobs EXCEPT ![run.job_id] =
                    [@ EXCEPT !.status = "Running",
                              !.sent_count = IF sent THEN @ + 1 ELSE @,
                              !.failed_count = IF sent THEN @ ELSE @ + 1]]
    /\ run' = [run EXCEPT !.k = @ + 1]
    /\ UNCHANGED <<settings, webVars, reply, netio, stdout, tasks, files, up>>

\* the reports the finished job leaves in the working directory
SuccessReport(job) == [job_id |-> job.job_id, rows |-> job.sent_count]
FailedReport(job) == [job_id |-> job.job_id, rows |-> job.failed_count]

\* after the last recipient: the job is completed and its reports are written
TaskFinish ==
    /\ run.job_id # 0
    /\ run.k = jobs[run.job_id].total_customers
    /\ jobs' = [jobs EXCEPT ![run.job_id].status = "Completed"]
    /\ files' = ("success_report.xlsx" :> SuccessReport(jobs[run.job_id]))
                @@ ("failed_report.xlsx" :> FailedReport(jobs[run.job_id]))
    /\ run' = IdleRun
    /\ UNCHANGED <<settings, webVars, reply, netio, stdout, tasks, up>>

process_bulk_whatsapp == TaskStart \/ TaskRecipient \/ TaskFinish

(***************************************************************************)
(* job_status (lines 86-91)                                                *)
(***************************************************************************)
\* round(num / den * 100, 2), in hundredths of a percent
RoundPercent(num, den) ==
    LET x == num * 10000
        q == x \div den
        r == x % den
    IN  IF 2 * r < den THEN q
        ELSE IF 2 * r > den THEN q + 1
        ELSE IF q % 2 = 0 THEN q ELSE q + 1

Progress(job) ==
    IF job.total_customers > 0
    THEN RoundPercent(job.sent_count, job.total_customers)
    ELSE 0

job_status ==
    /\ \E job_id \in 1..MaxJobs :
         reply' = Reply("job_status", <<job_id>>,
                        IF job_id \in 1..Len(jobs)
                        THEN Response(200, "progress", Progress(jobs[job_id]))
                        ELSE Response(404, "text", "Not Found"))
    /\ netio' = <<>>
    /\ stdout' = <<>>
    /\ UNCHANGED <<settings, webVars, jobVars>>

(***************************************************************************)
(* download_success_report, download_failed_report (lines 97-108)          *)
(***************************************************************************)
Download(op, file_path, job_id) ==
    Reply(op, <<job_id>>,
          IF file_path \in DOMAIN files
          THEN Response(200, "attachment", files[file_path])
          ELSE Response(404, "text", "report not found."))

download_success_report ==
    /\ \E job_id \in 1..MaxJobs :
         reply' = Download("download_success_report", "success_report.xlsx", job_id)
    /\ netio' = <<>>
    /\ stdout' = <<>>
    /\ UNCHANGED <<settings, webVars, jobVars>>

download_failed_report ==
    /\ \E job_id \in 1..MaxJobs :
         reply' = Download("download_failed_report", "failed_report.xlsx", job_id)
    /\ netio' = <<>>
    /\ stdout' = <<>>
    /\ UNCHANGED <<settings, webVars, jobVars>>

(***************************************************************************)
(* Specifications                                                          *)
(***************************************************************************)
Init ==
    /\ settings \in SettingsChoices
    /\ log = <<>>
    /\ clock = 0
    /\ req = [w \in Workers |-> IdleReq]
    /\ reply = NoReply
    /\ netio = <<>>
    /\ stdout = <<>>
    /\ jobs = <<>>
    /\ tasks = <<>>
    /\ files = <<>>
    /\ up = IdleUp
    /\ run = IdleRun

\* a deployment whose credentials are set
InitConfigured == Init /\ HasCredentials

\* the inbound webhook: text, unknown types, absent keys
BasicPayloads == ByLength(Payloads(BasicPool, MaxMsgs), MaxMsgs)

Next ==
    \/ WebhookPostBadJson(1)
    \/ WebhookPost(1, BasicPayloads, MaxLog)
    \/ WebhookMessage(1)
    \/ WebhookAttach(1)

Spec == InitConfigured /\ [][Next]_vars

\* the inbound webhook: media messages
MediaPayloads == ByLength(Payloads(MediaPool, MaxMsgs), MaxMsgs)

NextMedia ==
    \/ WebhookPostBadJson(1)
    \/ WebhookPost(1, MediaPayloads, MaxLog)
    \/ WebhookMessage(1)
    \/ WebhookAttach(1)

SpecMedia == InitConfigured /\ [][NextMedia]_vars

\* the inbound webhook: interactive replies
ReplyPayloads == ByLength(Payloads(ReplyPool, MaxMsgs), MaxMsgs)

NextInteractive ==
    \/ WebhookPostBadJson(1)
    \/ WebhookPost(1, ReplyPayloads, MaxLog)
    \/ WebhookMessage(1)

SpecInteractive == InitConfigured /\ [][NextInteractive]_vars

\* one delivery of a batch of BatchSize messages, one of them malformed
BatchSize == 4

Batches ==
    ByLength({p \in OneChange(BatchPool, BatchSize) \cup Spread(BatchPool, BatchSize) :
                /\ Len(Flatten(p)) = BatchSize
                /\ Cardinality({k \in 1..BatchSize : Flatten(p)[k].msg = TextNoField}) = 1},
             BatchSize)

NextBatch ==
    \/ WebhookPost(1, Batches, BatchSize)
    \/ WebhookMessage(1)

SpecBatch == InitConfigured /\ [][NextBatch]_vars

\* deliveries, manual replies and the views that read the log
ChatPayloads == ByLength(OneChange(ChatPool, MaxMsgs), MaxMsgs)

NextChat ==
    \/ WebhookPost(1, ChatPayloads, MaxLog)
    \/ WebhookMessage(1)
    \/ WebhookAttach(1)
    \/ SendReplySent
    \/ chat_messages_api
    \/ chat_dashboard
    \/ export_received_messages_to_excel

SpecChat == InitConfigured /\ [][NextChat]_vars

\* two webhook workers handling deliveries at the same time, and manual replies
NextConcurrent ==
    \/ \E w \in Workers :
         \/ WebhookPost(w, ChatPayloads, MaxLog)
         \/ WebhookMessage(w)
         \/ WebhookAttach(w)
    \/ SendReplySent

SpecConcurrent == InitConfigured /\ [][NextConcurrent]_vars

\* deliveries of MaxMsgs + 1 messages, spread over changes and entries, in which
\* a message may lack its text and the storage of a media file may fail
FailingPool == {TextOk, TextNoField, Image}

FailingBatches ==
    ByLength({p \in OneChange(FailingPool, MaxMsgs + 1) \cup Spread(FailingPool, MaxMsgs + 1) :
                Len(Flatten(p)) = MaxMsgs + 1},
             MaxMsgs + 1)

NextFailing ==
    \/ WebhookPost(1, FailingBatches, MaxMsgs + 1)
    \/ WebhookMessage(1)
    \/ WebhookAttach(1)

SpecFailing == InitConfigured /\ [][NextFailing]_vars

\* manual replies, in a deployment with or without credentials
NextReply ==
    \/ SendReplyNotPost
    \/ SendReplyMissing
    \/ SendReplyFailed
    \/ SendReplySent

SpecReply == Init /\ [][NextReply]_vars

\* the verification handshake next to deliveries
VerifyPayloads == ByLength(OneChange({TextOk, Image}, MaxMsgs), MaxMsgs)

NextVerify ==
    \/ WebhookPost(1, VerifyPayloads, MaxLog)
    \/ WebhookMessage(1)
    \/ WebhookAttach(1)
    \/ WebhookGet
    \/ WebhookOtherMethod

SpecVerify == InitConfigured /\ [][NextVerify]_vars

\* bulk jobs: upload and background dispatch
NextUpload ==
    \/ UploadGet
    \/ UploadInvalid
    \/ UploadUnreadable
    \/ UploadCreate
    \/ UploadSubmit
    \/ TaskStart
    \/ TaskRecipient
    \/ TaskFinish

SpecUpload == InitConfigured /\ [][NextUpload]_vars

\* bulk jobs as their status page and report downloads show them
NextJobs ==
    \/ UploadCreate
    \/ UploadSubmit
    \/ TaskStart
    \/ TaskRecipient
    \/ TaskFinish
    \/ job_status
    \/ download_success_report
    \/ download_failed_report

SpecJobs == InitConfigured /\ [][NextJobs]_vars

(***************************************************************************)
(* Properties                                                              *)
(***************************************************************************)
\* the message the loop of worker w is at
Current(w) == Flatten(req[w].payload)[req[w].i].msg

\* worker w takes the step that handles the message its loop is at
HandlesMessage(w) == req[w].pc = "loop" /\ req'[w] # req[w]

\* after that step the loops go on: to the next message, or to the 200 answer
GoesOn(w) ==
    IF req[w].i < Len(Flatten(req[w].payload))
    THEN req'[w].pc = "loop" /\ req'[w].i = req[w].i + 1
    ELSE req'[w].pc = "done" /\ req'[w].resp = Response(200, "status", "received")

\* the step appends exactly one row and leaves the others alone
AppendsOne == Len(log') = Len(log) + 1 /\ SubSeq(log', 1, Len(log)) = log

Malformed(msg) ==
    \/ (msg.type \in {None, "text"} /\ msg.text = None)
    \/ (msg.type = "interactive" /\ msg.itype \in {"button", "list_reply"} /\ msg.ireply = None)

\* C1: a delivery of BatchSize messages of which exactly one is malformed ends
\* with BatchSize - 1 rows persisted by that delivery, wherever the malformed
\* message stands in the batch.
C1_BatchKeepsSiblings ==
    \A w \in Workers :
        LET flat == Flatten(req[w].payload)
        IN  (/\ req[w].pc = "done"
             /\ Len(flat) = BatchSize
             /\ Cardinality({k \in 1..Len(flat) : Malformed(flat[k].msg)}) = 1)
            => Len(req[w].made) = BatchSize - 1

\* the text the handler derives for a media message before the download
C2_Placeholder(msg) ==
    CASE msg.type = "image" /\ msg.media_id = "m1" -> "[Image received: m1]"
      [] msg.type = "image" /\ msg.media_id = "m2" -> "[Image received: m2]"
      [] msg.type = "image" -> "[Image received: None]"
      [] msg.type = "document" /\ msg.filename # None -> msg.filename
      [] msg.type = "document" -> "[Document]"
      [] msg.type = "video" -> "[Video]"
      [] OTHER -> "[Audio]"

\* C2: when the handler reaches a message of a media type and the metadata
\* request or the byte download fails, the step appends exactly one Received
\* row with content_type = the message type, the placeholder text and no media,
\* nothing is left to attach, and the loops go on with the rest of the batch.
C2_MediaFailureKeepsEntry ==
    [][\A w \in Workers :
         (/\ HandlesMessage(w)
          /\ Current(w).type \in MediaTypes
          /\ ~(req'[w].net.meta_ok /\ req'[w].net.bytes_ok))
         => /\ AppendsOne
            /\ LET row == log'[Len(log')]
               IN  /\ row.status = "Received"
                   /\ row.message_type = "Received"
                   /\ row.message_id = Current(w).id
                   /\ row.content_type = Current(w).type
                   /\ row.sent_text_message = C2_Placeholder(Current(w))
                   /\ row.sent_text_message # ""
                   /\ row.media_file = ""
            /\ req'[w].made = Append(req[w].made, Len(log'))
            /\ GoesOn(w)]_vars

\* a media message whose download failed was logged without media and the loop
\* is at the message after it
C2_Witness ==
    /\ req[1].pc = "loop"
    /\ req[1].i = 2
    /\ Flatten(req[1].payload)[1].msg.type \in MediaTypes
    /\ req[1].net.meta_ok /\ ~req[1].net.bytes_ok
    /\ Flatten(req[1].payload)[2].msg.type = "text"
    /\ Len(req[1].made) = 1
    /\ log[req[1].made[1]].media_file = ""

\* C3: when the handler reaches a message whose type tag is none of text,
\* interactive, image, document, audio, video, the step appends exactly one
\* Received row with content_type "unknown" and empty text, calls the provider
\* not at all, and the loops go on with the rest of the batch.
C3_UnknownTypePassthrough ==
    [][\A w \in Workers :
         (/\ HandlesMessage(w)
          /\ Current(w).type \notin KnownTypes \cup {None})
         => /\ AppendsOne
            /\ LET row == log'[Len(log')]
               IN  /\ row.status = "Received"
                   /\ row.message_type = "Received"
                   /\ row.message_id = Current(w).id
                   /\ row.content_type = "unknown"
                   /\ row.sent_text_message = ""
                   /\ row.media_file = ""
            /\ netio' = <<>>
            /\ req'[w].made = Append(req[w].made, Len(log'))
            /\ GoesOn(w)]_vars

\* a sticker was logged as unknown and the loop is at the message after it
C3_Witness ==
    /\ req[1].pc = "loop"
    /\ req[1].i = 2
    /\ Flatten(req[1].payload)[1].msg.type = "sticker"
    /\ Len(req[1].made) = 1
    /\ log[req[1].made[1]].content_type = "unknown"

\* C10: the answer to a POST whose handling failed carries no error detail.
C10_NoErrorDetail ==
    \A w \in Workers :
        (req[w].pc = "done" /\ req[w].resp.status # 200)
        => req[w].resp.body[1] # "error"

\* C4: the progress job_status reports is sent_count + failed_count out of
\* total_customers (0 when the total is 0), so that it reaches 100% once every
\* recipient has resolved, sent or failed.
C4_ProgressCountsFailures ==
    [][(/\ reply' # reply
        /\ reply'.op = "job_status"
        /\ reply'.resp.status = 200)
       => LET job == jobs[reply'.arg[1]]
          IN  reply'.resp.body[2] =
                 IF job.total_customers > 0
                 THEN RoundPercent(job.sent_count + job.failed_count, job.total_customers)
                 ELSE 0]_vars

\* C5: once two jobs have both completed and written their reports, a download
\* for either job returns the report generated from that job's outcomes.
C5_ReportsKeyedByJob ==
    [][(/\ reply' # reply
        /\ reply'.op \in {"download_success_report", "download_failed_report"}
        /\ Len(jobs) >= 2
        /\ \A j \in 1..Len(jobs) : jobs[j].status = "Completed")
       => /\ reply'.resp.status = 200
          /\ reply'.resp.body[2].job_id = reply'.arg[1]]_vars

\* C6: chat_messages_api returns the rows of a number in the order of their
\* creation, also when rows carry the same sent_at.
C6_ChatCreationOrder ==
    reply.op = "chat_messages_api"
    => \A a, b \in 1..Len(reply.resp.body[2]) :
          a < b => reply.resp.body[2][a].id < reply.resp.body[2][b].id

\* C7: a job row appears only by the create step of a POST with a valid form
\* and a readable sheet: exactly one row, Pending, total = the sheet's rows, no
\* task yet. A task is submitted only by the step after it: exactly one task,
\* carrying the id of that job, answered with the redirect while the job is
\* still untouched. A request that ends otherwise (GET, invalid form, unreadable
\* file) creates no job and submits no task. Every task, queued or running,
\* refers to an existing job row.
C7_JobBeforeTask ==
    /\ [](/\ \A k \in 1..Len(tasks) : tasks[k].job_id \in 1..Len(jobs)
          /\ run.job_id # 0 => run.job_id \in 1..Len(jobs))
    /\ [][/\ Len(jobs') # Len(jobs)
             => /\ up.pc \in {"idle", "done"}
                /\ up'.pc = "created" /\ up'.method = "POST" /\ up'.valid /\ up'.readable
                /\ Len(jobs') = Len(jobs) + 1
                /\ SubSeq(jobs', 1, Len(jobs)) = jobs
                /\ up'.job_id = Len(jobs')
                /\ jobs'[Len(jobs')].job_id = up'.job_id
                /\ jobs'[Len(jobs')].status = "Pending"
                /\ jobs'[Len(jobs')].total_customers = up'.rows
                /\ tasks' = tasks
          /\ (up.pc = "created" /\ up' # up)
             => /\ up'.pc = "done"
                /\ up'.resp = Response(302, "job_status", up.job_id)
                /\ tasks' = Append(tasks, [choice |-> up.choice, job_id |-> up.job_id])
                /\ jobs' = jobs
                /\ jobs[up.job_id].status = "Pending"
                /\ jobs[up.job_id].sent_count + jobs[up.job_id].failed_count = 0
          /\ Len(tasks') > Len(tasks) => up.pc = "created" /\ up' # up
          /\ (up.pc # "created" /\ up' # up /\ up'.pc = "done")
             => /\ jobs' = jobs
                /\ tasks' = tasks
                /\ up'.resp.status # 302]_vars

\* a valid POST has been answered with the redirect to its job, whose task waits
\* in the queue
C7_Witness ==
    /\ up.pc = "done"
    /\ up.resp = Response(302, "job_status", up.job_id)
    /\ up.rows = MaxRows
    /\ Len(jobs) = 1
    /\ jobs[1].status = "Pending"
    /\ jobs[1].total_customers = MaxRows
    /\ Len(tasks) = 1
    /\ tasks[1].job_id = 1

\* C8: a GET is answered with its hub.challenge exactly when hub.mode is
\* "subscribe" and hub.verify_token is the configured token; any other GET gets
\* a 400 whose body does not contain the challenge; no GET changes the log.
C8_Handshake ==
    /\ [](reply.op = "whatsapp_webhook GET"
          => LET mode == reply.arg[1]
                 token == reply.arg[2]
                 challenge == reply.arg[3]
             IN  IF mode = "subscribe" /\ token = settings.WHATSAPP_VERIFY_TOKEN
                 THEN reply.resp = Response(200, "hub.challenge", challenge)
                 ELSE /\ reply.resp.status = 400
                      /\ reply.resp.body[1] # "hub.challenge"
                      /\ challenge \notin Range(reply.resp.body))
    /\ [][(reply' # reply /\ reply'.op = "whatsapp_webhook GET") => log' = log]_vars

\* a GET with the right token but another mode was rejected while the log holds rows
C8_Witness ==
    /\ reply.op = "whatsapp_webhook GET"
    /\ reply.arg = <<"unsubscribe", settings.WHATSAPP_VERIFY_TOKEN, "1158201444">>
    /\ reply.resp.status = 400
    /\ Len(log) > 0

\* C9: no step deletes a row of the log or changes a field of an existing row
\* other than media_file, and media_file changes only from empty to set, by the
\* attach step of the request that created the row.
C9_AppendOnly ==
    [][/\ Len(log') >= Len(log)
       /\ \A pk \in 1..Len(log) :
            \/ log'[pk] = log[pk]
            \/ /\ log'[pk] = [log[pk] EXCEPT !.media_file = log'[pk].media_file]
               /\ log[pk].media_file = ""
               /\ log'[pk].media_file # ""
               /\ \E w \in Workers :
                    /\ req[w].pc = "attach"
                    /\ req[w].pk = pk
                    /\ pk \in Range(req[w].made)
                    /\ req'[w] # req[w]]_vars

\* a manual reply was appended between the creation of an image row and the
\* attachment of its file, and the chat of that number has been read since
C9_Witness ==
    /\ Len(log) = 2
    /\ log[1].content_type = "image"
    /\ log[1].media_file # ""
    /\ log[2].message_type = "Sent"
    /\ log[2].sent_at = log[1].sent_at
    /\ reply.op = "chat_messages_api"
    /\ Len(reply.resp.body[2]) = 2

\* a request to send_reply_api is answered in this step
C11_Answered == reply'.op = "send_reply_api" /\ (reply' # reply \/ log' # log)

\* C11: send_reply_api appends to the log only after send_whatsapp_text has
\* returned. A request that is not a POST, or whose mobile or text is empty
\* after strip(), calls the provider not at all and appends nothing. A send
\* that raises (credentials missing, HTTP error status, timeout, unparseable
\* answer) appends nothing and is answered with 500. A send that returns is
\* followed by exactly one appended row, for the normalized number, of type
\* Sent, with status "Delivered" if the answer carries a non-empty message id
\* and "Sent" otherwise.
C11_LogAfterSend ==
    [][C11_Answered =>
         LET arg == reply'.arg
         IN  IF arg[1] # "POST"
             THEN /\ netio' = <<>>
                  /\ log' = log
                  /\ reply'.resp.status = 400
             ELSE IF Strip(arg[2]) = "" \/ Strip(arg[3]) = ""
             THEN /\ netio' = <<>>
                  /\ log' = log
                  /\ reply'.resp.status = 400
             ELSE IF arg[4] \notin {"ok_id", "ok_noid"}
             THEN /\ log' = log
                  /\ reply'.resp.status = 500
                  /\ (arg[4] = "no_credentials") = (netio' = <<>>)
             ELSE /\ AppendsOne
                  /\ netio' = <<"POST messages">>
                  /\ reply'.resp.status = 200
                  /\ LET row == log'[Len(log')]
                     IN  /\ row.mobile \in {"919876543210", "919123456789"}
                         /\ row.mobile = format_mobile(Strip(arg[2]))
                         /\ row.sent_text_message = "ok"
                         /\ row.message_type = "Sent"
                         /\ row.template_name = "manual"
                         /\ row.status = (IF arg[4] = "ok_id" THEN "Delivered" ELSE "Sent")
                         /\ (row.status = "Delivered") = (row.message_id # "")]_vars

\* a reply was sent and logged as Delivered, a second one got an answer without
\* a message id and was logged as Sent, and a third request failed at the
\* provider and left the log as it was
C11_Witness ==
    /\ Len(log) = 2
    /\ log[1].status = "Delivered" /\ log[1].message_id # ""
    /\ log[2].status = "Sent" /\ log[2].message_id = ""
    /\ log[1].message_type = "Sent" /\ log[2].message_type = "Sent"
    /\ reply.op = "send_reply_api"
    /\ reply.resp.status = 500
    /\ reply.arg[4] = "http_error"

\* the handling of the message worker w is at raises in this step
C12_Raises(w) ==
    /\ req[w].pc \in {"loop", "attach"}
    /\ req'[w].pc = "done"
    /\ req'[w].resp.status # 200

\* the rows worker w has made are those of the first n messages of its payload
MadeFirst(w, n) ==
    /\ Len(req[w].made) = n
    /\ \A j \in 1..n :
         /\ req[w].made[j] \in 1..Len(log)
         /\ log[req[w].made[j]].message_id = Flatten(req[w].payload)[j].msg.id
         /\ log[req[w].made[j]].message_type = "Received"
    /\ \A j \in 1..n : \A h \in 1..(j - 1) : req[w].made[h] < req[w].made[j]

\* C12: a delivery rolls nothing back. A message that lacks its text makes the
\* step raise, and a media message whose file cannot be stored makes the attach
\* step raise; the raising step leaves the log as it is and ends the request
\* with 400. When the request has ended that way at message k, the rows of
\* messages 1..k-1 are in the log, the request has made no row for messages
\* k+1..n in whatever change or entry they stand, and it has made a row for
\* message k only if the failure was the attach, and then one without media.
C12_NoRollback ==
    /\ [][\A w \in Workers :
            /\ (HandlesMessage(w) /\ Malformed(Current(w))) => C12_Raises(w)
            /\ (req[w].pc = "attach" /\ req'[w] # req[w] /\ log' = log) => C12_Raises(w)
            /\ C12_Raises(w) =>
                 /\ log' = log
                 /\ req'[w].resp.status = 400
                 /\ req'[w].made = req[w].made
                 /\ req'[w].i = req[w].i]_vars
    /\ [](\A w \in Workers :
            (req[w].pc = "done" /\ req[w].parsed /\ req[w].resp.status # 200) =>
                /\ req[w].i \in 1..Len(Flatten(req[w].payload))
                /\ IF Malformed(Current(w))
                   THEN MadeFirst(w, req[w].i - 1)
                   ELSE /\ MadeFirst(w, req[w].i)
                        /\ Current(w).type \in MediaTypes
                        /\ log[req[w].made[req[w].i]].media_file = ""
                        /\ log[req[w].made[req[w].i]].content_type = Current(w).type)

\* a delivery of three messages in two entries has ended with 400 at its second
\* message, which lacks its text: the row of the first is in the log, and the
\* well-formed third message, in the later entry, has no row
C12_Witness ==
    /\ req[1].pc = "done"
    /\ req[1].resp.status = 400
    /\ Len(req[1].payload) = 2
    /\ Len(Flatten(req[1].payload)) = 3
    /\ req[1].i = 2
    /\ Flatten(req[1].payload)[1].msg = TextOk
    /\ Flatten(req[1].payload)[2].msg = TextNoField
    /\ Flatten(req[1].payload)[3].msg = TextOk
    /\ Len(FlattenChanges(req[1].payload[1])) = 2
    /\ req[1].made = <<1>>
    /\ Len(log) = 1
    /\ log[1].message_id = TextOk.id

\* the same delivery with an image as second message whose file could not be
\* stored: the image has its row, without media, and the third message has none
C12_WitnessAttach ==
    /\ req[1].pc = "done"
    /\ req[1].resp.status = 400
    /\ Len(Flatten(req[1].payload)) = 3
    /\ req[1].i = 2
    /\ Flatten(req[1].payload)[2].msg = Image
    /\ Flatten(req[1].payload)[3].msg = TextOk
    /\ req[1].made = <<1, 2>>
    /\ Len(log) = 2
    /\ log[2].content_type = "image"
    /\ log[2].media_file = ""

\* the rows of the log that carry the provider message id of msg
C13_RowsOf(msg) == {pk \in 1..Len(log) : log[pk].message_id = msg.id}

\* the places of payload p at which the message is msg
C13_PlacesOf(msg, p) == {j \in 1..Len(Flatten(p)) : Flatten(p)[j].msg = msg}

\* C13: inbound events are not deduplicated. The step that handles a message
\* which raises nothing appends exactly one Received row with the message's
\* provider id, whether or not the log holds rows with that id; a delivery
\* answered with 200 has made one row for each of its n messages; the rows of
\* two deliveries are distinct, so when both workers have finished a delivery
\* with 200 the log holds, for each message, at least as many rows with its id
\* as the two payloads together carry it.
C13_NoDeduplication ==
    /\ [][\A w \in Workers :
            (HandlesMessage(w) /\ req'[w].resp.status # 400) =>
                /\ AppendsOne
                /\ log'[Len(log')].message_id = Current(w).id
                /\ log'[Len(log')].message_type = "Received"
                /\ Cardinality({pk \in 1..Len(log') : log'[pk].message_id = Current(w).id})
                     = Cardinality(C13_RowsOf(Current(w))) + 1
                /\ req'[w].made = Append(req[w].made, Len(log'))]_vars
    /\ [](/\ Range(req[1].made) \cap Range(req[2].made) = {}
          /\ \A w \in Workers :
               (req[w].pc = "done" /\ req[w].resp.status = 200) =>
                   MadeFirst(w, Len(Flatten(req[w].payload)))
          /\ (\A w \in Workers : req[w].pc = "done" /\ req[w].resp.status = 200) =>
                \A msg \in ChatPool :
                    Cardinality(C13_RowsOf(msg)) >=
                        Cardinality(C13_PlacesOf(msg, req[1].payload))
                        + Cardinality(C13_PlacesOf(msg, req[2].payload)))

\* the same one-image payload was delivered to both workers at the same time:
\* worker 2 has answered 200 while worker 1, which created its row first, has
\* yet to attach the file, and the log holds two rows with the image's id
C13_Witness ==
    /\ req[1].payload = req[2].payload
    /\ Len(Flatten(req[1].payload)) = 1
    /\ Flatten(req[1].payload)[1].msg = Image
    /\ req[1].pc = "attach"
    /\ req[1].made = <<1>>
    /\ req[2].pc = "done"
    /\ req[2].resp.status = 200
    /\ req[2].made = <<2>>
    /\ log[1].message_id = Image.id
    /\ log[2].message_id = Image.id

====
